---- MODULE Spec2Model ----
(***************************************************************************)
(* Model of the diamond (upgradeable dispatch) contract of                 *)
(* contracts/upgradability/diamond/diamond.rs: the storage DiamondData,    *)
(* the message diamond_cut with its internal _diamond_cut, and the         *)
(* forwarding entry point _fallback.                                       *)
(***************************************************************************)
EXTENDS Naturals, Sequences, FiniteSets, TLC

(* ------------------------------ domains -------------------------------- *)

\* Longest batch of facet cuts handed to one diamond_cut call.
MaxCuts == 2

\* Code hashes: "F" is the diamond's own hash, "A" and "B" are facets.
Hashes == {"F", "A", "B"}

Selectors == {"s1", "s2"}

Accounts == {"owner", "other"}

\* Option::None
None == "none"

Range(f) == {f[x] : x \in DOMAIN f}

\* Vec<Selector> values a caller hands over in a FacetCut: every list of
\* selectors, in every order, that names no selector twice.
SelectorVecs ==
    {v \in UNION {[1..n -> Selectors] : n \in 0..Cardinality(Selectors)} :
        \A i, j \in DOMAIN v : v[i] = v[j] => i = j}

\* FacetCut { hash, selectors }
FacetCuts == [hash : Hashes, selectors : SelectorVecs]

\* Vec<FacetCut>
Batches == UNION {[1..n -> FacetCuts] : n \in 0..MaxCuts}

\* Option<InitCall>: InitCall { hash, selector, input }
InitCalls == {[hash |-> "A", selector |-> "s1", input |-> "payload"]}

\* Option<InitCall>: <<>> is None, <<c>> is Some(c)
InitOptions == {<<>>} \cup {<<c>> : c \in InitCalls}

(* ------------------------------- state --------------------------------- *)

VARIABLES
    selector_to_hash,   \* Mapping<Selector, Hash>
    hash_to_selectors,  \* Mapping<Hash, Vec<Selector>>
    self_hash,          \* Hash of the diamond itself (immutable functions)
    owner,              \* ownable.owner
    call,               \* the call in flight: operation and its arguments
    pre,                \* the two mappings as they were when the call started
    result,             \* how the call ended
    hooks,              \* _on_add_facet / _on_remove_facet invocations of the call
    events,             \* _emit_diamond_cut_event invocations of the call
    flushed,            \* whether the call flushed the storage
    delegated           \* delegate calls fired by the call

vars == <<selector_to_hash, hash_to_selectors, self_hash, owner,
          call, pre, result, hooks, events, flushed, delegated>>

(* ------------------------- Mapping primitives --------------------------- *)

EmptyMapping == [k \in {} |-> None]

\* Mapping::insert
Insert(m, k, v) == [x \in (DOMAIN m) \cup {k} |-> IF x = k THEN v ELSE m[x]]

\* Mapping::remove
Remove(m, k) == [x \in (DOMAIN m) \ {k} |-> m[x]]

\* Mapping::get(..).is_some()
IsSome(m, k) == k \in DOMAIN m

\* Vec::contains
Contains(vec, x) == \E i \in 1..Len(vec) : vec[i] = x

(* ------------------------------ results -------------------------------- *)

Ok == [kind |-> "Ok", err |-> "", hash |-> None]

\* Err(DiamondError::ReplaceExisting(hash))
ReplaceExisting(h) == [kind |-> "Err", err |-> "ReplaceExisting", hash |-> h]

\* Err(DiamondError::ImmutableFunction)
ImmutableFunction == [kind |-> "Err", err |-> "ImmutableFunction", hash |-> None]

\* only_owner rejected the caller
CallerIsNotOwner == [kind |-> "Err", err |-> "CallerIsNotOwner", hash |-> None]

\* panic!(msg): the execution traps
Panic(msg) == [kind |-> "Panic", err |-> msg, hash |-> None]

\* a delegate call with the tail flag went through: the contract does not resume
TailCall(h) == [kind |-> "TailCall", err |-> "", hash |-> h]

NoCall == [kind |-> "NoCall", err |-> "", hash |-> None]

(* ---------------------------- _diamond_cut ------------------------------ *)

\* The storage and the observable effects while a call executes.
Exec(sth, hts) ==
    [sth |-> sth, hts |-> hts, hooks |-> <<>>, events |-> <<>>,
     flushed |-> FALSE, delegated |-> <<>>, result |-> Ok]

\* _handle_replace_immutable with the comparison inverted
_handle_replace_immutable_inverted(sh, hash) ==
    IF hash # sh THEN ImmutableFunction ELSE Ok

_handle_replace_immutable(sh, hash) ==
    IF hash = sh THEN ImmutableFunction ELSE Ok

_on_add_facet(st, code_hash) ==
    [st EXCEPT !.hooks = Append(@, <<"add", code_hash>>)]

_on_remove_facet(st, code_hash) ==
    [st EXCEPT !.hooks = Append(@, <<"remove", code_hash>>)]

RECURSIVE RemoveAll(_, _, _)
\* vec.iter().for_each(|old_selector| selector_to_hash.remove(&old_selector))
RemoveAll(sth, vec, i) ==
    IF i > Len(vec) THEN sth
    ELSE RemoveAll(Remove(sth, vec[i]), vec, i + 1)

_remove_facet(st, code_hash) ==
    IF ~IsSome(st.hts, code_hash)
    THEN [st EXCEPT !.result = Panic("unwrap on None")]
    ELSE LET vec == st.hts[code_hash]
             st1 == [st EXCEPT !.sth = RemoveAll(@, vec, 1),
                               !.hts = Remove(@, code_hash)]
         IN  _on_remove_facet(st1, code_hash)

RECURSIVE RemoveAbsent(_, _, _, _)
\* for selector in selectors: if !facet_cut.selectors.contains(selector) remove it
RemoveAbsent(sth, selectors, keep, i) ==
    IF i > Len(selectors) THEN sth
    ELSE IF ~Contains(keep, selectors[i])
         THEN RemoveAbsent(Remove(sth, selectors[i]), selectors, keep, i + 1)
         ELSE RemoveAbsent(sth, selectors, keep, i + 1)

_remove_selectors(st, facet_cut) ==
    IF ~IsSome(st.hts, facet_cut.hash)
    THEN [st EXCEPT !.result = Panic("unwrap on None")]
    ELSE LET selectors == st.hts[facet_cut.hash]
         IN  [st EXCEPT !.sth = RemoveAbsent(@, selectors, facet_cut.selectors, 1)]

RECURSIVE BindSelectors_wrong_hash(_, _, _, _)
\* the loop over facet_cut.selectors, reporting the cut's hash in the error
\* instead of the hash that holds the selector
BindSelectors_wrong_hash(st, code_hash, selectors, i) ==
    IF i > Len(selectors) THEN st
    ELSE LET selector == selectors[i]
         IN  IF IsSome(st.sth, selector) /\ st.sth[selector] = code_hash
             THEN BindSelectors_wrong_hash(st, code_hash, selectors, i + 1)
             ELSE IF IsSome(st.sth, selector)
             THEN [st EXCEPT !.result = ReplaceExisting(code_hash)]
             ELSE BindSelectors_wrong_hash(
                      [st EXCEPT !.sth = Insert(@, selector, code_hash)],
                      code_hash, selectors, i + 1)

RECURSIVE BindSelectors_no_rebind(_, _, _, _)
\* the loop over facet_cut.selectors, refusing every selector that is already
\* registered, also when it is registered to the cut's own hash
BindSelectors_no_rebind(st, code_hash, selectors, i) ==
    IF i > Len(selectors) THEN st
    ELSE LET selector == selectors[i]
         IN  IF IsSome(st.sth, selector)
             THEN [st EXCEPT !.result = ReplaceExisting(st.sth[selector])]
             ELSE BindSelectors_no_rebind(
                      [st EXCEPT !.sth = Insert(@, selector, code_hash)],
                      code_hash, selectors, i + 1)

RECURSIVE BindSelectors_overwrite(_, _, _, _)
\* the loop over facet_cut.selectors, taking over a selector registered to
\* another hash instead of refusing it
BindSelectors_overwrite(st, code_hash, selectors, i) ==
    IF i > Len(selectors) THEN st
    ELSE BindSelectors_overwrite(
             [st EXCEPT !.sth = Insert(@, selectors[i], code_hash)],
             code_hash, selectors, i + 1)

RECURSIVE BindSelectors(_, _, _, _)
\* the loop over facet_cut.selectors
BindSelectors(st, code_hash, selectors, i) ==
    IF i > Len(selectors) THEN st
    ELSE LET selector == selectors[i]
         IN  IF IsSome(st.sth, selector) /\ st.sth[selector] = code_hash
             THEN BindSelectors(st, code_hash, selectors, i + 1)
             ELSE IF IsSome(st.sth, selector)
             THEN [st EXCEPT !.result = ReplaceExisting(st.sth[selector])]
             ELSE BindSelectors([st EXCEPT !.sth = Insert(@, selector, code_hash)],
                                code_hash, selectors, i + 1)

\* the body of the loop over diamond_cut, adding the cut's selectors to the
\* list the hash already has instead of replacing the list
ApplyFacetCut_merge(st, sh, facet_cut) ==
    LET code_hash == facet_cut.hash
        imm == _handle_replace_immutable(sh, code_hash)
    IN  IF imm # Ok THEN [st EXCEPT !.result = imm]
        ELSE IF facet_cut.selectors = <<>>
        THEN _remove_facet(st, code_hash)
        ELSE LET st1 == BindSelectors(st, code_hash, facet_cut.selectors, 1)
             IN  IF st1.result # Ok THEN st1
                 ELSE LET st2 == IF ~IsSome(st1.hts, code_hash)
                                 THEN _on_add_facet(st1, code_hash)
                                 ELSE st1
                          old == IF IsSome(st1.hts, code_hash)
                                 THEN st1.hts[code_hash] ELSE <<>>
                          st3 == [st2 EXCEPT !.hts =
                                     Insert(@, code_hash,
                                            old \o facet_cut.selectors)]
                      IN  _remove_selectors(st3, facet_cut)

\* the body of the loop over diamond_cut, for one facet_cut
ApplyFacetCut(st, sh, facet_cut) ==
    LET code_hash == facet_cut.hash
        imm == _handle_replace_immutable(sh, code_hash)
    IN  IF imm # Ok THEN [st EXCEPT !.result = imm]
        ELSE IF facet_cut.selectors = <<>>
        THEN _remove_facet(st, code_hash)
        ELSE LET st1 == BindSelectors(st, code_hash, facet_cut.selectors, 1)
             IN  IF st1.result # Ok THEN st1
                 ELSE LET st2 == IF ~IsSome(st1.hts, code_hash)
                                 THEN _on_add_facet(st1, code_hash)
                                 ELSE st1
                          st3 == [st2 EXCEPT !.hts =
                                     Insert(@, code_hash, facet_cut.selectors)]
                      IN  _remove_selectors(st3, facet_cut)

RECURSIVE ApplyFacetCuts_reversed(_, _, _, _)
\* the loop over diamond_cut, walking the batch from its last cut to its first
ApplyFacetCuts_reversed(st, sh, diamond_cut, i) ==
    IF i > Len(diamond_cut) THEN st
    ELSE LET st1 == ApplyFacetCut(st, sh, diamond_cut[Len(diamond_cut) + 1 - i])
         IN  IF st1.result # Ok THEN st1
             ELSE ApplyFacetCuts_reversed(st1, sh, diamond_cut, i + 1)

RECURSIVE ApplyFacetCuts(_, _, _, _)
\* for facet_cut in diamond_cut.iter(), left at the first error
ApplyFacetCuts(st, sh, diamond_cut, i) ==
    IF i > Len(diamond_cut) THEN st
    ELSE LET st1 == ApplyFacetCut(st, sh, diamond_cut[i])
         IN  IF st1.result # Ok THEN st1
             ELSE ApplyFacetCuts(st1, sh, diamond_cut, i + 1)

_emit_diamond_cut_event(st, diamond_cut, init) ==
    [st EXCEPT !.events = Append(@, [cuts |-> diamond_cut, init |-> init])]

\* Flush::flush
flush(st) == [st EXCEPT !.flushed = TRUE]

\* callOk: whether the host's delegate call goes through
_init_call(st, c, callOk) ==
    [st EXCEPT !.delegated = Append(@, [hash |-> c.hash, selector |-> c.selector,
                                        input |-> c.input,
                                        events |-> Len(st.events),
                                        flushed |-> st.flushed]),
               !.result = IF callOk THEN TailCall(c.hash)
                          ELSE Panic("init call failed")]

\* _diamond_cut firing the init call without flushing the storage first
_diamond_cut_unflushed(st, sh, diamond_cut, init, callOk) ==
    LET st1 == ApplyFacetCuts(st, sh, diamond_cut, 1)
    IN  IF st1.result # Ok THEN st1
        ELSE LET st2 == _emit_diamond_cut_event(st1, diamond_cut, init)
             IN  IF init # <<>>
                 THEN _init_call(st2, init[1], callOk)
                 ELSE st2

\* _diamond_cut emitting the event before it walks the batch
_diamond_cut_emit_first(st, sh, diamond_cut, init, callOk) ==
    LET st0 == _emit_diamond_cut_event(st, diamond_cut, init)
        st1 == ApplyFacetCuts(st0, sh, diamond_cut, 1)
    IN  IF st1.result # Ok THEN st1
        ELSE IF init # <<>>
             THEN _init_call(flush(st1), init[1], callOk)
             ELSE st1

_diamond_cut(st, sh, diamond_cut, init, callOk) ==
    LET st1 == ApplyFacetCuts(st, sh, diamond_cut, 1)
    IN  IF st1.result # Ok THEN st1
        ELSE LET st2 == _emit_diamond_cut_event(st1, diamond_cut, init)
             IN  IF init # <<>>
                 THEN _init_call(flush(st2), init[1], callOk)
                 ELSE st2

(* ------------------------------ actions -------------------------------- *)

Idle == call.op = "none"

Table == [sth |-> selector_to_hash, hts |-> hash_to_selectors]

\* The storage a freshly deployed diamond starts with: nothing registered, or
\* the diamond's own hash seeded with its own selectors.
Seeds == {<<>>, <<"s1">>}

Init ==
    /\ \E seed \in Seeds :
          /\ selector_to_hash = [s \in Range(seed) |-> "F"]
          /\ hash_to_selectors =
                IF seed = <<>> THEN EmptyMapping ELSE [h \in {"F"} |-> seed]
    /\ self_hash = "F"
    /\ owner = "owner"
    /\ call = [op |-> "none", caller |-> None, cuts |-> <<>>, init |-> <<>>,
               input |-> None]
    /\ pre = [sth |-> EmptyMapping, hts |-> EmptyMapping]
    /\ result = NoCall
    /\ hooks = <<>>
    /\ events = <<>>
    /\ flushed = FALSE
    /\ delegated = <<>>

\* diamond_cut without the only_owner modifier
diamond_cut_no_modifier(caller, cuts, init, callOk) ==
    /\ Idle
    /\ call' = [op |-> "diamond_cut", caller |-> caller, cuts |-> cuts,
                init |-> init, input |-> None]
    /\ pre' = Table
    /\ \E st \in {_diamond_cut(Exec(selector_to_hash, hash_to_selectors),
                                self_hash, cuts, init, callOk)} :
           /\ selector_to_hash' = st.sth
           /\ hash_to_selectors' = st.hts
           /\ result' = st.result
           /\ hooks' = st.hooks
           /\ events' = st.events
           /\ flushed' = st.flushed
           /\ delegated' = st.delegated
    /\ UNCHANGED <<self_hash, owner>>

\* #[modifiers(only_owner)] diamond_cut(diamond_cut, init)
diamond_cut(caller, cuts, init, callOk) ==
    /\ Idle
    /\ call' = [op |-> "diamond_cut", caller |-> caller, cuts |-> cuts,
                init |-> init, input |-> None]
    /\ pre' = Table
    /\ \E st \in {IF caller # owner
                  THEN [Exec(selector_to_hash, hash_to_selectors)
                           EXCEPT !.result = CallerIsNotOwner]
                  ELSE _diamond_cut(Exec(selector_to_hash, hash_to_selectors),
                                    self_hash, cuts, init, callOk)} :
           /\ selector_to_hash' = st.sth
           /\ hash_to_selectors' = st.hts
           /\ result' = st.result
           /\ hooks' = st.hooks
           /\ events' = st.events
           /\ flushed' = st.flushed
           /\ delegated' = st.delegated
    /\ UNCHANGED <<self_hash, owner>>

\* _fallback forwarding a selector nobody registered to the diamond's own code
\* instead of trapping
_fallback_own_code(input, callOk) ==
    /\ Idle
    /\ call' = [op |-> "fallback", caller |-> None, cuts |-> <<>>, init |-> <<>>,
                input |-> input]
    /\ pre' = Table
    /\ IF input \notin Selectors
       THEN /\ result' = Panic("Calldata error")
            /\ delegated' = <<>>
       ELSE LET delegate_code == IF IsSome(selector_to_hash, input)
                                 THEN selector_to_hash[input] ELSE self_hash
            IN  /\ delegated' = <<[hash |-> delegate_code, selector |-> input,
                                   input |-> "forwarded", events |-> 0,
                                   flushed |-> FALSE]>>
                /\ result' = IF callOk THEN TailCall(delegate_code)
                             ELSE Panic("delegate call failed")
    /\ hooks' = <<>>
    /\ events' = <<>>
    /\ flushed' = FALSE
    /\ UNCHANGED <<selector_to_hash, hash_to_selectors, self_hash, owner>>

\* input: the decoded selector, or "bad" when the calldata does not decode
_fallback(input, callOk) ==
    /\ Idle
    /\ call' = [op |-> "fallback", caller |-> None, cuts |-> <<>>, init |-> <<>>,
                input |-> input]
    /\ pre' = Table
    /\ IF input \notin Selectors
       THEN /\ result' = Panic("Calldata error")
            /\ delegated' = <<>>
       ELSE IF ~IsSome(selector_to_hash, input)
       THEN /\ result' = Panic("Function is not registered")
            /\ delegated' = <<>>
       ELSE LET delegate_code == selector_to_hash[input]
            IN  /\ delegated' = <<[hash |-> delegate_code, selector |-> input,
                                   input |-> "forwarded", events |-> 0,
                                   flushed |-> FALSE]>>
                /\ result' = IF callOk THEN TailCall(delegate_code)
                             ELSE Panic("delegate call failed")
    /\ hooks' = <<>>
    /\ events' = <<>>
    /\ flushed' = FALSE
    /\ UNCHANGED <<selector_to_hash, hash_to_selectors, self_hash, owner>>

\* The call is over: its frame (arguments, outcome, emitted effects) is gone and
\* the contract waits for the next call.
EndCall ==
    /\ ~Idle
    /\ call' = [op |-> "none", caller |-> None, cuts |-> <<>>, init |-> <<>>,
                input |-> None]
    /\ pre' = [sth |-> EmptyMapping, hts |-> EmptyMapping]
    /\ result' = NoCall
    /\ hooks' = <<>>
    /\ events' = <<>>
    /\ flushed' = FALSE
    /\ delegated' = <<>>
    /\ UNCHANGED <<selector_to_hash, hash_to_selectors, self_hash, owner>>

\* One call at a time: a call is taken only when none is in flight.
Next ==
    \/ /\ Idle
       /\ \E caller \in Accounts, cuts \in Batches, init \in InitOptions :
             \* the host's answer matters only where a delegate call can be fired
             \E callOk \in (IF caller = owner /\ init # <<>>
                             THEN BOOLEAN ELSE {TRUE}) :
                diamond_cut(caller, cuts, init, callOk)
    \/ /\ Idle
       /\ \E input \in Selectors \cup {"bad"}, callOk \in BOOLEAN :
             _fallback(input, callOk)
    \/ EndCall

Spec == Init /\ [][Next]_vars

(* --------------------------- reading a call ----------------------------- *)

\* lookup(selector) = module in a table
Bound(sth, s, h) == s \in DOMAIN sth /\ sth[s] = h

\* A diamond_cut call that passed only_owner is in flight or has ended.
Applied == call.op = "diamond_cut" /\ call.caller = owner

NumCuts == Len(call.cuts)

\* The storage after the first i cuts of the batch in flight ran (or after the
\* first of them that failed).
StAfter(i) ==
    ApplyFacetCuts(Exec(pre.sth, pre.hts), self_hash, SubSeq(call.cuts, 1, i), 1)

\* Cut i of the batch was reached with every earlier cut applied.
Reached(i) == i \in 1..NumCuts /\ StAfter(i - 1).result = Ok

\* Cut i of the batch was applied.
Succeeded(i) == i \in 1..NumCuts /\ StAfter(i).result = Ok

\* The table after cut i; after the last cut it is the contract's storage.
TableAfter(i) ==
    IF i = NumCuts THEN Table
    ELSE [sth |-> StAfter(i).sth, hts |-> StAfter(i).hts]

\* Every cut of the batch was applied.
AllCutsApplied == Applied /\ StAfter(NumCuts).result = Ok

\* The call did not end in an error or a trap.
NotFailed == result.kind \notin {"Err", "Panic"}

(* ----------------------------- properties ------------------------------ *)

Bijection(sth, hts) ==
    /\ \A s \in Selectors, h \in Hashes :
          Bound(sth, s, h) <=> (h \in DOMAIN hts /\ Contains(hts[h], s))
    /\ \A h \in DOMAIN hts : hts[h] # <<>>
    /\ \A h \in Hashes :
          h \in DOMAIN hts <=> \E s \in Selectors : Bound(sth, s, h)

\* C1: selector_to_hash and hash_to_selectors are exact inverses in every
\* reachable state, every key of hash_to_selectors has a non-empty list, and a
\* hash is a key exactly when a selector is bound to it.  Stated over the states
\* whose last call did not fail, so that a violation shows a call that
\* succeeded and left the two mappings apart.
Claim_C1_Bijection ==
    NotFailed => Bijection(selector_to_hash, hash_to_selectors)

\* C2: a diamond_cut call that returns an error leaves selector_to_hash,
\* hash_to_selectors and self_hash as they were before the call.
Claim_C2_Atomicity ==
    (call.op = "diamond_cut" /\ result.kind = "Err") =>
        /\ Table = pre
        /\ self_hash = "F"

\* C3: a selector bound to the diamond's own hash stays bound to it through
\* every call, whatever the cuts and whether the call succeeds or fails.
Theorem_C3_FrozenRoutesPermanent ==
    [][\A s \in Selectors :
          Bound(selector_to_hash, s, self_hash) =>
              Bound(selector_to_hash', s, self_hash')]_vars

\* C3 witness: a call whose batch cut another facet with a selector the
\* diamond's own hash holds has ended, and the selector is still bound to the
\* own hash.
Witness_C3 ==
    /\ Applied
    /\ Bound(pre.sth, "s1", self_hash)
    /\ Bound(selector_to_hash, "s1", self_hash)
    /\ \E i \in 1..NumCuts :
          call.cuts[i].hash # self_hash /\ Contains(call.cuts[i].selectors, "s1")

\* C4: a batch holding a cut of the diamond's own hash, reached with no earlier
\* cut failed, fails with ImmutableFunction and leaves the table as it was
\* before the call.
Claim_C4_ImmutableProtection ==
    \A i \in 1..NumCuts :
        (Applied /\ Reached(i) /\ call.cuts[i].hash = self_hash) =>
            /\ result = ImmutableFunction
            /\ Table = pre

\* The first selector of the list that is bound to another hash than h.
FirstConflict(sth, h, selectors) ==
    LET idx == {i \in 1..Len(selectors) :
                   selectors[i] \in DOMAIN sth /\ sth[selectors[i]] # h}
    IN  selectors[CHOOSE i \in idx : \A j \in idx : i <= j]

\* Cut i binds, for a hash B that is not the diamond's own, a list holding
\* selector s, which is bound to hash A # B when the cut is reached.
Conflict(i, s, A) ==
    /\ Applied
    /\ Reached(i)
    /\ call.cuts[i].hash # self_hash
    /\ call.cuts[i].hash # A
    /\ Contains(call.cuts[i].selectors, s)
    /\ Bound(StAfter(i - 1).sth, s, A)

\* C5 as stated: the call fails with ReplaceExisting(A), A being the hash that
\* holds s, and s is still bound to A afterwards.
Claim_C5_ConflictDetection ==
    \A i \in 1..NumCuts, s \in Selectors, A \in Hashes :
        Conflict(i, s, A) =>
            /\ result = ReplaceExisting(A)
            /\ Bound(selector_to_hash, s, A)

\* C5 amended: the call fails with ReplaceExisting(X), X being the hash that
\* holds the first selector of the cut's list bound to another hash than the
\* cut's (X = A when that selector is s), and s is still bound to A afterwards.
Theorem_C5_FirstConflictReported ==
    \A i \in 1..NumCuts, s \in Selectors, A \in Hashes :
        Conflict(i, s, A) =>
            LET sth == StAfter(i - 1).sth
                first == FirstConflict(sth, call.cuts[i].hash,
                                       call.cuts[i].selectors)
            IN  /\ result = ReplaceExisting(sth[first])
                /\ first = s => result = ReplaceExisting(A)
                /\ Bound(selector_to_hash, s, A)

\* C5 witness: a cut of one selector bound to another facet was refused.
Witness_C5 ==
    /\ NumCuts = 1
    /\ Conflict(1, "s2", "A")
    /\ call.cuts[1].selectors = <<"s2">>
    /\ result = ReplaceExisting("A")

\* C6: after a cut {M, L} with L non-empty was applied, every selector that was
\* bound to M before the cut and is not in L is unbound, the selectors of L
\* are bound to M, and the cut fired no remove hook.
Claim_C6_ReplaceDropsSelectors ==
    \A i \in 1..NumCuts :
        (Applied /\ Succeeded(i) /\ call.cuts[i].selectors # <<>>) =>
            LET M == call.cuts[i].hash
                L == call.cuts[i].selectors
            IN  /\ \A s \in Selectors :
                      (Bound(StAfter(i - 1).sth, s, M) /\ ~Contains(L, s)) =>
                          s \notin DOMAIN TableAfter(i).sth
                /\ \A s \in Selectors :
                      Contains(L, s) => Bound(TableAfter(i).sth, s, M)
                /\ StAfter(i).hooks \in
                      {StAfter(i - 1).hooks,
                       Append(StAfter(i - 1).hooks, <<"add", M>>)}

\* C7: after a cut {M, <<>>} of a hash M other than the diamond's own was
\* applied, no selector is bound to M and M is no key of hash_to_selectors.
Claim_C7_FullDeregistration ==
    \A i \in 1..NumCuts :
        (Applied /\ Succeeded(i) /\ call.cuts[i].selectors = <<>>) =>
            LET M == call.cuts[i].hash
            IN  /\ \A s \in Selectors : ~Bound(TableAfter(i).sth, s, M)
                /\ M \notin DOMAIN TableAfter(i).hts

\* C8: after a cut {M, L} with L non-empty was applied, every selector of L is
\* bound to M, hash_to_selectors[M] is exactly L, and every selector that was
\* bound to another hash than M is bound as before.
Theorem_C8_BindPostcondition ==
    \A i \in 1..NumCuts :
        (Applied /\ Succeeded(i) /\ call.cuts[i].selectors # <<>>) =>
            LET M == call.cuts[i].hash
                L == call.cuts[i].selectors
                before == StAfter(i - 1)
                after == TableAfter(i)
            IN  /\ M # self_hash
                /\ \A s \in Selectors : Contains(L, s) => Bound(after.sth, s, M)
                /\ M \in DOMAIN after.hts /\ after.hts[M] = L
                /\ \A s \in Selectors, h \in Hashes \ {M} :
                      Bound(before.sth, s, h) => Bound(after.sth, s, h)

\* C8 witness: a call of one cut replaced the list of two selectors a facet had
\* by a list of one of them.
Witness_C8 ==
    /\ Applied /\ NumCuts = 1 /\ result = Ok
    /\ "A" \in DOMAIN pre.hts /\ pre.hts["A"] = <<"s1", "s2">>
    /\ call.cuts[1] = [hash |-> "A", selectors |-> <<"s2">>]
    /\ hash_to_selectors["A"] = <<"s2">>

\* C9: _fallback on a selector no hash is bound to traps with "Function is not
\* registered" and fires no delegate call; on a bound selector it fires exactly
\* one delegate call, into the hash selector_to_hash holds for it when the call
\* is made; it never changes the table.
Theorem_C9_Dispatch ==
    (call.op = "fallback" /\ call.input \in Selectors) =>
        /\ call.input \notin DOMAIN pre.sth =>
              /\ result = Panic("Function is not registered")
              /\ delegated = <<>>
        /\ call.input \in DOMAIN pre.sth =>
              /\ Len(delegated) = 1
              /\ delegated[1].hash = pre.sth[call.input]
              /\ result \in {TailCall(pre.sth[call.input]),
                             Panic("delegate call failed")}
        /\ Table = pre

\* C9 witness: a selector a cut bound to facet B was forwarded to B.
Witness_C9 ==
    /\ call.op = "fallback"
    /\ Bound(pre.sth, call.input, "B")
    /\ result = TailCall("B")

\* C10: a diamond_cut call that passed only_owner succeeds or fails with
\* ReplaceExisting or ImmutableFunction.  A trap of the init delegate call,
\* which the host raises after every cut was applied, is left aside.
Claim_C10_OnlyTwoErrors ==
    Applied =>
        \/ result.kind \in {"Ok", "TailCall"}
        \/ result.kind = "Err" /\ result.err \in {"ReplaceExisting", "ImmutableFunction"}
        \/ result = Panic("init call failed")

\* C11: a diamond_cut call by another account than the owner is rejected before
\* any cut is processed: the table is as before the call, no hook fired, no
\* event was emitted, nothing was flushed and no init call was made.
Theorem_C11_Authorization ==
    (call.op = "diamond_cut" /\ call.caller # owner) =>
        /\ result = CallerIsNotOwner
        /\ Table = pre
        /\ hooks = <<>>
        /\ events = <<>>
        /\ ~flushed
        /\ delegated = <<>>

\* C11 witness: another account than the owner handed over a batch that binds
\* a free selector, with an init call, and was rejected.
Witness_C11 ==
    /\ call.op = "diamond_cut" /\ call.caller = "other"
    /\ call.cuts = <<[hash |-> "A", selectors |-> <<"s2">>]>>
    /\ "s2" \notin DOMAIN pre.sth
    /\ call.init # <<>>
    /\ result = CallerIsNotOwner

\* C12: a cut {M, L} with L non-empty that was applied, applied once more right
\* after, is applied again (no error) and leaves the table as the first
\* application left it.
Theorem_C12_IdempotentRebind ==
    \A i \in 1..NumCuts :
        (Applied /\ Succeeded(i) /\ call.cuts[i].selectors # <<>>) =>
            LET after == TableAfter(i)
                again == ApplyFacetCut(Exec(after.sth, after.hts), self_hash,
                                       call.cuts[i])
            IN  /\ again.result = Ok
                /\ again.sth = after.sth
                /\ again.hts = after.hts

\* C12 witness: a call bound two free selectors to a facet that had none.
Witness_C12 ==
    /\ Applied /\ NumCuts = 1 /\ result = Ok
    /\ call.cuts[1] = [hash |-> "B", selectors |-> <<"s2", "s1">>]
    /\ pre.sth = EmptyMapping
    /\ Bound(selector_to_hash, "s1", "B") /\ Bound(selector_to_hash, "s2", "B")

\* The hooks cut i of the batch fired.
HooksOf(i) ==
    SubSeq(StAfter(i).hooks, Len(StAfter(i - 1).hooks) + 1, Len(StAfter(i).hooks))

\* The hash has at least one selector routed to it.
Routed(sth, h) == \E s \in Selectors : Bound(sth, s, h)

\* How often the hook fired in a list of hook invocations.
Count(hs, hook) == Cardinality({k \in 1..Len(hs) : hs[k] = hook})

\* The call started from a table in which every hash that has a routed
\* selector has its list in hash_to_selectors.
ListedBefore ==
    \A h \in Hashes : Routed(pre.sth, h) => h \in DOMAIN pre.hts

\* C13: a cut of hash M fires the add hook for M exactly once when it takes M
\* from no routed selector to at least one, and not at all when M had a routed
\* selector before the cut or has none after it.  Stated for the calls that
\* start from a table where every routed hash has its list, so that a
\* violation does not start from what a failed call left behind.
Claim_C13_AddHook ==
    \A i \in 1..NumCuts :
        (Applied /\ ListedBefore /\ Reached(i)) =>
            LET M == call.cuts[i].hash
                gained == /\ ~Routed(StAfter(i - 1).sth, M)
                          /\ Routed(StAfter(i).sth, M)
                          /\ Succeeded(i)
            IN  /\ Count(HooksOf(i), <<"add", M>>) = IF gained THEN 1 ELSE 0
                /\ \A h \in Hashes \ {M} : Count(HooksOf(i), <<"add", h>>) = 0

\* C14: a cut of hash M fires the remove hook for M exactly once when it takes
\* M from at least one routed selector to none, and not at all otherwise: not
\* when M keeps a routed selector, not when M had none before the cut.
Claim_C14_RemoveHook ==
    \A i \in 1..NumCuts :
        (Applied /\ Reached(i)) =>
            LET M == call.cuts[i].hash
                lost == /\ Routed(StAfter(i - 1).sth, M)
                        /\ ~Routed(StAfter(i).sth, M)
            IN  /\ Count(HooksOf(i), <<"remove", M>>) = IF lost THEN 1 ELSE 0
                /\ \A h \in Hashes \ {M} : Count(HooksOf(i), <<"remove", h>>) = 0

\* Hash A, not the diamond's own, has a list in the table the call started
\* from, and the vector names exactly the selectors of that list.
Holds(A, selectors) ==
    /\ A # self_hash
    /\ A \in DOMAIN pre.hts
    /\ Range(selectors) = Range(pre.hts[A])

\* The batch of the call is: deregister A, then bind A's selectors to B.
RemoveThenBind(A, B) ==
    /\ Applied /\ NumCuts = 2 /\ A # B
    /\ call.cuts[1] = [hash |-> A, selectors |-> <<>>]
    /\ call.cuts[2].hash = B
    /\ Holds(A, call.cuts[2].selectors)

\* The batch of the call is the same two cuts in the opposite order.
BindThenRemove(A, B) ==
    /\ Applied /\ NumCuts = 2 /\ A # B
    /\ call.cuts[2] = [hash |-> A, selectors |-> <<>>]
    /\ call.cuts[1].hash = B
    /\ Holds(A, call.cuts[1].selectors)

\* Every cut was applied and the call went on to its end.
CutsWentThrough == result.kind \in {"Ok", "TailCall"} \/ result = Panic("init call failed")

\* C15 as stated: for every B other than A, the batch [{A, <<>>}, {B, S}]
\* goes through, leaves the selectors of S bound to B and A without a list,
\* and the two cuts in the opposite order fail with ReplaceExisting(A).
Claim_C15_BatchOrder ==
    \A A \in Hashes, B \in Hashes :
        /\ RemoveThenBind(A, B) =>
              /\ CutsWentThrough
              /\ \A s \in Range(call.cuts[2].selectors) :
                    Bound(selector_to_hash, s, B)
              /\ A \notin DOMAIN hash_to_selectors
        /\ BindThenRemove(A, B) => result = ReplaceExisting(A)

\* C15 amended: the same for every B that is neither A nor the diamond's own
\* hash.
Theorem_C15_BatchOrder ==
    \A A \in Hashes, B \in Hashes \ {self_hash} :
        /\ RemoveThenBind(A, B) =>
              /\ CutsWentThrough
              /\ \A s \in Range(call.cuts[2].selectors) :
                    Bound(selector_to_hash, s, B)
              /\ A \notin DOMAIN hash_to_selectors
        /\ BindThenRemove(A, B) => result = ReplaceExisting(A)

\* C15 witness: facet A's two selectors were moved to facet B in one batch.
Witness_C15 ==
    /\ RemoveThenBind("A", "B")
    /\ pre.hts["A"] = <<"s1", "s2">>
    /\ result = Ok
    /\ Bound(selector_to_hash, "s1", "B") /\ Bound(selector_to_hash, "s2", "B")

\* C16: when the init call is given and every cut was applied, exactly one
\* delegate call is fired, into the init call's hash, selector and input, after
\* the cuts were applied, the event was emitted and the storage was flushed,
\* and the call does not return Ok after it; when no init call is given or a
\* cut fails, no delegate call is fired.
Theorem_C16_InitOrdering ==
    Applied =>
        IF AllCutsApplied /\ call.init # <<>>
        THEN /\ delegated = <<[hash |-> call.init[1].hash,
                               selector |-> call.init[1].selector,
                               input |-> call.init[1].input,
                               events |-> 1, flushed |-> TRUE]>>
             /\ events = <<[cuts |-> call.cuts, init |-> call.init]>>
             /\ flushed
             /\ Table = [sth |-> StAfter(NumCuts).sth, hts |-> StAfter(NumCuts).hts]
             /\ result \in {TailCall(call.init[1].hash), Panic("init call failed")}
        ELSE /\ delegated = <<>>
             /\ ~flushed
             /\ result.kind # "TailCall"

\* C16 witness: a batch of two cuts went through and the init call was fired.
Witness_C16 ==
    /\ Applied /\ NumCuts = 2 /\ call.init # <<>>
    /\ call.cuts[1].hash # call.cuts[2].hash
    /\ Len(hooks) = 2
    /\ result = TailCall("A")

\* C17: a call in which every cut was applied emits exactly one event, carrying
\* the whole batch and the optional init call; a call in which a cut failed
\* (with ImmutableFunction, ReplaceExisting or a trap) emits none, so the event
\* is never emitted before the last cut was applied.
Theorem_C17_AuditEvent ==
    Applied =>
        events = IF AllCutsApplied
                 THEN <<[cuts |-> call.cuts, init |-> call.init]>>
                 ELSE <<>>

\* C17 witness: a batch whose first cut was applied and whose second cut was
\* refused emitted no event.
Witness_C17 ==
    /\ Applied /\ NumCuts = 2
    /\ Succeeded(1) /\ call.cuts[1].selectors # <<>>
    /\ result.kind = "Err" /\ result.err = "ReplaceExisting"
    /\ events = <<>>

\* C18: no selector is in the lists of two different hashes in
\* hash_to_selectors.
Theorem_C18_NoSharedSelector ==
    \A h1 \in DOMAIN hash_to_selectors, h2 \in DOMAIN hash_to_selectors :
        h1 # h2 =>
            Range(hash_to_selectors[h1]) \cap Range(hash_to_selectors[h2]) = {}

\* C18 witness: a selector of facet A's list is in facet B's list after a call
\* that removed A's list, next to another hash that has a list.
Witness_C18 ==
    /\ Applied
    /\ "A" \in DOMAIN pre.hts /\ Contains(pre.hts["A"], "s2")
    /\ "A" \notin DOMAIN hash_to_selectors
    /\ "B" \in DOMAIN hash_to_selectors /\ Contains(hash_to_selectors["B"], "s2")
    /\ "F" \in DOMAIN hash_to_selectors

====
